---------------------------- MODULE Spec2Model ----------------------------
(***************************************************************************)
(* A model of netlink.go: the netlink message builder (NlMsgBuilder), the  *)
(* response validator (NetlinkSocket.checkResponse), the parser            *)
(* (NlMsgButcher) and the attribute map (Attrs).                           *)
(*                                                                         *)
(* Buffers are sequences of bytes (0..255); Go's 0-based offset p is the   *)
(* TLA+ index p+1.  The structured views the code obtains by pointer casts *)
(* (nlMsghdrAt, rtAttrAt, nlMsgerrAt) are decoded from the bytes in the    *)
(* native byte order of the supported platforms, little-endian.  A uint32  *)
(* is kept as its two 16-bit halves [hi, lo], so that every 32-bit value   *)
(* is representable and wraps as in Go.  int is taken to be 64 bits wide.  *)
(***************************************************************************)
EXTENDS Integers, Sequences, FiniteSets, TLC

VARIABLES
    \* --- NetlinkSocket.recv / checkResponse
    data,         \* the received buffer handed to checkResponse
    expectedSeq,  \* the sequence number the caller sent
    sockPid,      \* s.addr.Pid, the socket's own bound port id
    result,       \* what checkResponse returned (or how it ended)
    cpc,          \* position of the validating caller
    \* --- package state and concurrent Finish callers
    nextSeqNo,    \* var nextSeqNo uint32
    tpc,          \* per goroutine: position inside Finish
    thdr,         \* per goroutine: the builder header's Len and Seq fields
    tseq,         \* per goroutine: the local variable seq
    tcalls,       \* per goroutine: Finish calls started
    tbefore,      \* per goroutine: sequence numbers returned before its call began
    returned,     \* the completed Finish calls
    \* --- one NlMsgBuilder and the NlMsgButcher reading its product
    buf,          \* NlMsgBuilder.buf, later NlMsgButcher.data
    stack,        \* the PutRtAttr invocations whose gen() is running
    bpc,          \* position of the build/parse call chain
    args,         \* the arguments given to NewNlMsgBuilder and TakeNlMsghdr
    log,          \* every attribute written: type, prefix start, end, parent
    retSeq,       \* the sequence number Finish returned
    pos,          \* NlMsgButcher.pos
    attrs,        \* the Attrs map TakeAttrs returned
    perr,         \* the error of the last parser call
    got           \* the (value, error) of the last GetUint16 call

vars == <<data, expectedSeq, sockPid, result, cpc,
          nextSeqNo, tpc, thdr, tseq, tcalls, tbefore, returned,
          buf, stack, bpc, args, log, retSeq, pos, attrs, perr, got>>

checkVars  == <<data, expectedSeq, sockPid, result, cpc>>
finishVars == <<tpc, thdr, tseq, tcalls, tbefore, returned>>
buildVars  == <<buf, stack, bpc, args, log, retSeq, pos, attrs, perr, got>>

-----------------------------------------------------------------------------
(* Program constants (package syscall, linux).                             *)

NLMSG_HDRLEN == 16
NLMSG_ALIGNTO == 4
RTA_ALIGNTO == 4
SizeofRtAttr == 4
SizeofNlMsgerrCode == 4
NLMSG_ERROR == 2

-----------------------------------------------------------------------------
(* Bounds of the model.                                                    *)

MaxData == 25       \* longest received buffer given to checkResponse
MaxDeclared == 26   \* largest header-declared length in a received buffer
NumThreads == 2     \* goroutines calling Finish concurrently
MaxCalls == 4       \* Finish calls made in all
MaxAttrs == 3       \* PutRtAttr calls on one builder
MaxDepth == 2       \* nesting depth of PutRtAttr callbacks
MaxStrLen == 2      \* longest string given to PutStringRtAttr
MaxRaw == 6         \* longest raw buffer given to TakeAttrs

-----------------------------------------------------------------------------
(* Bytes and fixed-width integers.                                         *)

Zeros(n) == [i \in 1..n |-> 0]

Take(s, n) == SubSeq(s, 1, IF n < Len(s) THEN n ELSE Len(s))

\* Go's s[lo:hi] on a byte slice, 0-based, lo <= hi <= len(s).
Slice(s, lo, hi) == SubSeq(s, lo + 1, hi)

\* Overwrite the bytes of s at 0-based offset p with the bytes of w.
Patch(s, p, w) ==
    [i \in 1..Len(s) |-> IF i > p /\ i <= p + Len(w) THEN w[i - p] ELSE s[i]]

U32(h, l) == [hi |-> h, lo |-> l]

U32OfInt(n) == U32((n \div 65536) % 65536, n % 65536)

Le16(v) == <<v % 256, (v \div 256) % 256>>

Le32(u) == Le16(u.lo) \o Le16(u.hi)

GetLe16(d, p) == d[p + 1] + 256 * d[p + 2]

GetLe32(d, p) == U32(GetLe16(d, p + 2), GetLe16(d, p))

\* A signed 32-bit little-endian read.
GetInt32(d, p) ==
    d[p + 1] + 256 * d[p + 2] + 65536 * d[p + 3]
      + 16777216 * (IF d[p + 4] >= 128 THEN d[p + 4] - 256 ELSE d[p + 4])

MinInt32 == -2147483647 - 1

\* Go's unary minus on an int32: it wraps at the minimum value.
NegInt32(v) == IF v = MinInt32 THEN MinInt32 ELSE 0 - v

\* int(u) for a uint32 u compared with a buffer length n (n < 2^31): n < int(u).
IntLtU32(n, u) == IF u.hi >= 32768 THEN TRUE ELSE n < u.hi * 65536 + u.lo

\* u < v on uint32
U32Lt(u, v) == u.hi < v.hi \/ (u.hi = v.hi /\ u.lo < v.lo)

\* func align(n, a): (n + a - 1) & -a clears the low bits of n + a - 1 for a
\* power of two a.
align(n, a) == LET x == n + a - 1 IN x - (x % a)

-----------------------------------------------------------------------------
(* NetlinkSocket.checkResponse                                             *)

\* The *syscall.NlMsghdr obtained by casting &data[pos].
nlMsghdrAt(d, p) ==
    [Len   |-> GetLe32(d, p),
     Type  |-> GetLe16(d, p + 4),
     Flags |-> GetLe16(d, p + 6),
     Seq   |-> GetLe32(d, p + 8),
     Pid   |-> GetLe32(d, p + 12)]

\* A value checkResponse returns, or "panic" when it does not return.
\* errno holds the int32 operand v of the conversion syscall.Errno(v);
\* decoded tells whether the payload slice expression was evaluated.
Outcome(k, e, dec) == [kind |-> k, errno |-> e, decoded |-> dec]

\* Bytes an out-of-range read may find behind the end of a buffer.
OobBytes == {0, 255}

OobPads(n) == [1..n -> OobBytes]

\* A variant of checkHeader with the port id and sequence checks exchanged.
checkHeaderSeqFirst(d, seq, pid) ==
    IF Len(d) < NLMSG_HDRLEN THEN "TruncatedHeader"
    ELSE LET h == nlMsghdrAt(d, 0) IN
         IF IntLtU32(Len(d), h.Len) THEN "TruncatedMessage"
         ELSE IF h.Seq # seq THEN "SequenceMismatch"
         ELSE IF h.Pid # pid THEN "PeerMismatch"
         ELSE "ok"

\* Lines 173-188: the four checks on the header, in order.
checkHeader(d, seq, pid) ==
    IF Len(d) < NLMSG_HDRLEN THEN "TruncatedHeader"
    ELSE LET h == nlMsghdrAt(d, 0) IN
         IF IntLtU32(Len(d), h.Len) THEN "TruncatedMessage"
         ELSE IF h.Pid # pid THEN "PeerMismatch"
         ELSE IF h.Seq # seq THEN "SequenceMismatch"
         ELSE "ok"

\* The header-declared length as an int, once it is known to be <= len(data).
DeclaredLen(d) == LET h == nlMsghdrAt(d, 0) IN h.Len.hi * 65536 + h.Len.lo

\* What the read of nlerr.Error yields, given the int32 it found.
errorOutcome(code) ==
    IF code = 0 THEN Outcome("nil", 0, TRUE)
    ELSE Outcome("NetlinkError", NegInt32(code), TRUE)

\* Lines 190-206, reached once the four checks passed.  The set of ways the
\* call can end: a slice or index expression out of range panics; the
\* 4-byte read of nlerr.Error through the cast pointer is not bounds-checked,
\* so behind the end of the buffer it finds arbitrary bytes or faults.
checkPayload(d) ==
    LET h == nlMsghdrAt(d, 0)
        hlen == DeclaredLen(d)
    IN  IF hlen < NLMSG_HDRLEN
        THEN {Outcome("panic", 0, FALSE)}            \* data[16:h.Len], 16 > h.Len
        ELSE IF h.Type = NLMSG_ERROR
        THEN IF hlen = NLMSG_HDRLEN
             THEN {Outcome("panic", 0, TRUE)}        \* &payload[0] of an empty slice
             ELSE IF Len(d) >= NLMSG_HDRLEN + SizeofNlMsgerrCode
             THEN {errorOutcome(GetInt32(d, NLMSG_HDRLEN))}
             ELSE {Outcome("panic", 0, TRUE)} \cup
                  {errorOutcome(GetInt32(d \o pad, NLMSG_HDRLEN)) :
                     pad \in OobPads(NLMSG_HDRLEN + SizeofNlMsgerrCode - Len(d))}
        ELSE IF hlen > align(Len(d), NLMSG_ALIGNTO)
        THEN {Outcome("MultipleMessages", 0, TRUE)}
        ELSE {Outcome("nil", 0, TRUE)}

checkResponse(d, seq, pid) ==
    LET k == checkHeader(d, seq, pid) IN
    IF k # "ok" THEN {Outcome(k, 0, FALSE)} ELSE checkPayload(d)

\* The two's-complement bytes of an int32.
Int32Bytes(v) ==
    IF v >= 0 THEN Le32(U32OfInt(v))
    ELSE LET m == 0 - (v + 1)
         IN  Le32(U32(65535 - (m \div 65536), 65535 - (m % 65536)))

\* A datagram as the kernel lays it out: a header, then the payload (for an
\* error message the int32 code comes first), possibly more bytes after it.
WireMsg(len, typ, seq, pid, code) ==
    Le32(U32OfInt(len)) \o Le16(typ) \o Le16(0) \o Le32(seq) \o Le32(pid)
      \o Int32Bytes(code) \o [i \in 1..MaxData |-> 1]

OwnPid == U32(0, 4660)
SentSeq == U32(1, 0)
WireTypes == {NLMSG_ERROR, 16}
WireSeqs == {SentSeq, U32(0, 65535)}
WirePids == {OwnPid, U32(0, 0)}
WireCodes == {0, -2, 5, MinInt32}

RecvBuffers ==
    {Take(WireMsg(len, typ, seq, pid, code), n) :
        len \in 0..MaxDeclared, typ \in WireTypes, seq \in WireSeqs,
        pid \in WirePids, code \in WireCodes, n \in 0..MaxData}

NoResult == Outcome("none", 0, FALSE)

\* Lines 61-79: recv returns the bytes of one datagram, rb[:nr].
Recv ==
    /\ cpc = "recv"
    /\ \E d \in RecvBuffers : data' = d
    /\ cpc' = "check"
    /\ UNCHANGED <<expectedSeq, sockPid, result>>

\* Lines 172-207.
CheckResponse ==
    /\ cpc = "check"
    /\ \E r \in checkResponse(data, expectedSeq, sockPid) : result' = r
    /\ cpc' = "done"
    /\ UNCHANGED <<data, expectedSeq, sockPid>>

InitCheck ==
    /\ data = <<>>
    /\ expectedSeq = SentSeq
    /\ sockPid = OwnPid
    /\ result = NoResult
    /\ cpc = "recv"

-----------------------------------------------------------------------------
(* var nextSeqNo and concurrent calls of NlMsgBuilder.Finish               *)

Threads == 1..NumThreads

\* A variant of AddUint32 that loses the addition.
AddUint32Lost(u, d) == u

\* atomic.AddUint32(&u, d): the new value, wrapping at 2^32.
AddUint32(u, d) ==
    LET l == u.lo + d
    IN  U32((u.hi + (l \div 65536)) % 65536, l % 65536)

\* Counter values the process has after 0 or 65534 earlier Finish calls.
StartSeqNos == {U32(0, 0), U32(0, 65534)}

\* Lines 98-106 and 134-135: a goroutine makes a builder of its own, calls
\* Finish on it, and Finish stores the buffer length into the header.
FinishBegin(t) ==
    /\ tpc[t] = "idle"
    /\ Cardinality(returned) + Cardinality({u \in Threads : tpc[u] # "idle"}) < MaxCalls
    /\ tcalls' = [tcalls EXCEPT ![t] = @ + 1]
    /\ tbefore' = [tbefore EXCEPT ![t] = {r.seq : r \in returned}]
    /\ thdr' = [thdr EXCEPT ![t] = [Len |-> U32OfInt(NLMSG_HDRLEN), Seq |-> U32(0, 0)]]
    /\ tpc' = [tpc EXCEPT ![t] = "add"]
    /\ UNCHANGED <<nextSeqNo, tseq, returned>>

\* Line 136: seq = atomic.AddUint32(&nextSeqNo, 1), one indivisible step.
FinishAdd(t) ==
    /\ tpc[t] = "add"
    /\ nextSeqNo' = AddUint32(nextSeqNo, 1)
    /\ tseq' = [tseq EXCEPT ![t] = nextSeqNo']
    /\ tpc' = [tpc EXCEPT ![t] = "stamp"]
    /\ UNCHANGED <<thdr, tcalls, tbefore, returned>>

\* Lines 137-140: h.Seq = seq, and the call returns (res, seq).
FinishReturn(t) ==
    /\ tpc[t] = "stamp"
    /\ thdr' = [thdr EXCEPT ![t].Seq = tseq[t]]
    /\ returned' = returned \cup
          {[thread |-> t, call |-> tcalls[t], seq |-> tseq[t],
            hdrSeq |-> thdr'[t].Seq, before |-> tbefore[t]]}
    /\ tpc' = [tpc EXCEPT ![t] = "idle"]
    /\ UNCHANGED <<nextSeqNo, tseq, tcalls, tbefore>>

InitThreads ==
    /\ tpc = [t \in Threads |-> "idle"]
    /\ thdr = [t \in Threads |-> [Len |-> U32(0, 0), Seq |-> U32(0, 0)]]
    /\ tseq = [t \in Threads |-> U32(0, 0)]
    /\ tcalls = [t \in Threads |-> 0]
    /\ tbefore = [t \in Threads |-> {}]
    /\ returned = {}

-----------------------------------------------------------------------------
(* NlMsgBuilder.  A builder's buffer is modelled by its contents: expand   *)
(* copies them, and the bytes a longer slice uncovers are zero, because    *)
(* make zeroes the array and the builder never writes behind len(buf).     *)

\* Lines 117-121: the buffer padded to a multiple of a.
BuilderAlign(b, a) == b \o Zeros(align(Len(b), a) - Len(b))

\* Lines 123-129: the buffer with size more bytes; Grow returns pos = Len(b).
BuilderGrow(b, size) == b \o Zeros(size)

\* Lines 98-106: a zeroed header with Flags and Type set.
NewNlMsgBuilder(flags, typ) ==
    Patch(Patch(Zeros(NLMSG_HDRLEN), 6, Le16(flags)), 4, Le16(typ))

\* Lines 144-146 of PutRtAttr, up to the call of gen: pos is Len(.before).
PutRtAttrEnter(b) ==
    LET b1 == BuilderAlign(b, NLMSG_ALIGNTO)
    IN  [pos |-> Len(b1),
         buf |-> BuilderAlign(BuilderGrow(b1, SizeofRtAttr), RTA_ALIGNTO)]

\* A variant of PutRtAttrLeave that declares the padded length.
PutRtAttrLeavePadded(b, p, typ) ==
    Patch(b, p, Le16(align(Len(b) - p, RTA_ALIGNTO) % 65536) \o Le16(typ))

\* A variant of PutRtAttrLeave that declares the length of the value alone.
PutRtAttrLeaveValueLen(b, p, typ) ==
    Patch(b, p, Le16((Len(b) - p - SizeofRtAttr) % 65536) \o Le16(typ))

\* Lines 148-150 of PutRtAttr, after gen returned: rta.Type = typ and
\* rta.Len = uint16(len(buf) - pos); Len is the RtAttr's first field.
PutRtAttrLeave(b, p, typ) ==
    Patch(b, p, Le16((Len(b) - p) % 65536) \o Le16(typ))

\* Lines 153-158: Grow(len(str) + 1), then the bytes of str and one NUL.
addStringZ(b, str) == Patch(BuilderGrow(b, Len(str) + 1), Len(b), str \o <<0>>)

\* Lines 134-138: the header's Len and Seq stamped into the buffer.
FinishStamp(b, seq) == Patch(Patch(b, 0, Le32(U32OfInt(Len(b)))), 8, Le32(seq))

-----------------------------------------------------------------------------
(* NlMsgButcher and Attrs                                                  *)

\* attrs[typ] = val on a Go map: the entry is added or overwritten.
attrsPutFirstWins(m, typ, val) ==
    IF typ \in DOMAIN m THEN m
    ELSE [x \in DOMAIN m \cup {typ} |-> IF x = typ THEN val ELSE m[x]]

attrsPut(m, typ, val) ==
    [x \in DOMAIN m \cup {typ} |-> IF x = typ THEN val ELSE m[x]]

\* make(Attrs)
NoAttrs == [x \in {} |-> <<>>]

Parsed(m, e, p) == [attrs |-> m, err |-> e, pos |-> p]

\* Lines 267-273: checkData(l) succeeds iff pos + l <= len(data).
checkData(d, p, l) == p + l <= Len(d)

\* Lines 275-300: the loop of TakeAttrs from cursor p with the map m built so
\* far.  err is "nil", "TruncatedAttribute", or "panic" when the slice
\* expression data[valpos : pos+rta.Len] has valpos > pos+rta.Len.
RECURSIVE TakeAttrsFrom(_, _, _)
TakeAttrsFrom(d, p, m) ==
    LET apos == align(p, RTA_ALIGNTO) IN
    IF Len(d) <= apos THEN Parsed(m, "nil", p)
    ELSE IF ~checkData(d, apos, SizeofRtAttr)
    THEN Parsed(m, "TruncatedAttribute", apos)
    ELSE LET rtaLen == GetLe16(d, apos)
             rtaType == GetLe16(d, apos + 2)
             valpos == align(apos + SizeofRtAttr, RTA_ALIGNTO)
         IN  IF ~checkData(d, apos, rtaLen)
             THEN Parsed(m, "TruncatedAttribute", apos)
             ELSE IF valpos > apos + rtaLen
             THEN Parsed(m, "panic", apos)
             ELSE TakeAttrsFrom(d, apos + rtaLen,
                                attrsPut(m, rtaType, Slice(d, valpos, apos + rtaLen)))

\* Lines 245-252: a map lookup of a missing key yields the nil slice.
AttrsGet(m, typ) ==
    IF typ \in DOMAIN m THEN [val |-> m[typ], err |-> "nil"]
    ELSE [val |-> <<>>, err |-> "MissingAttribute"]

\* Lines 254-265.  On a value that is not 2 bytes long the code returns
\* (0, err) with the err of the successful Get, which is nil.
AttrsGetUint16(m, typ) ==
    LET g == AttrsGet(m, typ) IN
    IF g.err # "nil" THEN [val |-> 0, err |-> g.err]
    ELSE IF Len(g.val) # 2 THEN [val |-> 0, err |-> g.err]
    ELSE [val |-> GetLe16(g.val, 0), err |-> "nil"]

-----------------------------------------------------------------------------
(* One call chain: build a message, finish it, parse it back.              *)

MsgFlags == {5, 769}
MsgTypes == {16, 770}
AttrTypes == {1, 258}

\* "eth0.100"
Name == <<101, 116, 104, 48, 46, 49, 48, 48>>

Strings == {Take(Name, n) : n \in 0..MaxStrLen}

Top(st) == st[Len(st)]

NoGot == [val |-> 0, err |-> "none", typ |-> 0]

\* Line 98: NewNlMsgBuilder(flags, typ).
NewBuilder ==
    /\ bpc = "new"
    /\ \E f \in MsgFlags, t \in MsgTypes :
          /\ buf' = NewNlMsgBuilder(f, t)
          /\ args' = [args EXCEPT !.flags = f, !.typ = t]
    /\ bpc' = "build"
    /\ UNCHANGED <<stack, log, retSeq, pos, attrs, perr, got, nextSeqNo>>

\* Lines 143-147: PutRtAttr(typ, gen) is called, by the builder's owner or by
\* the running callback of an enclosing PutRtAttr, and calls gen.
PutRtAttrCall ==
    /\ bpc = "build"
    /\ Len(stack) < MaxDepth
    /\ Len(log) + Len(stack) < MaxAttrs
    /\ stack # <<>> => Top(stack).kind = "open"
    /\ \E typ \in AttrTypes :
          LET e == PutRtAttrEnter(buf) IN
          /\ buf' = e.buf
          /\ stack' = Append(stack, [pos |-> e.pos, typ |-> typ,
                                     kind |-> "open", str |-> <<>>])
    /\ UNCHANGED <<bpc, args, log, retSeq, pos, attrs, perr, got, nextSeqNo>>

\* Lines 160-161 and 153-158: the callback of PutStringRtAttr runs addStringZ.
AddStringZ ==
    /\ bpc = "build"
    /\ stack # <<>>
    /\ Top(stack).kind = "open"
    /\ Len(buf) = Top(stack).pos + SizeofRtAttr
    /\ \E str \in Strings :
          /\ buf' = addStringZ(buf, str)
          /\ stack' = [stack EXCEPT ![Len(stack)].kind = "str",
                                    ![Len(stack)].str = str]
    /\ UNCHANGED <<bpc, args, log, retSeq, pos, attrs, perr, got, nextSeqNo>>

\* Lines 148-151: gen returned; the prefix is backfilled and PutRtAttr returns.
PutRtAttrReturn ==
    /\ bpc = "build"
    /\ stack # <<>>
    /\ LET top == Top(stack) IN
          /\ buf' = PutRtAttrLeave(buf, top.pos, top.typ)
          /\ log' = Append(log, [typ |-> top.typ, pos |-> top.pos, end |-> Len(buf),
                                 kind |-> top.kind, str |-> top.str,
                                 parent |-> IF Len(stack) = 1 THEN -1
                                            ELSE stack[Len(stack) - 1].pos])
    /\ stack' = SubSeq(stack, 1, Len(stack) - 1)
    /\ UNCHANGED <<bpc, args, retSeq, pos, attrs, perr, got, nextSeqNo>>

\* Lines 133-141.
Finish ==
    /\ bpc = "build"
    /\ stack = <<>>
    /\ nextSeqNo' = AddUint32(nextSeqNo, 1)
    /\ buf' = FinishStamp(buf, nextSeqNo')
    /\ retSeq' = nextSeqNo'
    /\ bpc' = "finished"
    /\ UNCHANGED <<stack, args, log, pos, attrs, perr, got>>

\* Lines 214-216 and 232-241: a butcher over the finished bytes takes the header.
TakeNlMsghdr ==
    /\ bpc = "finished"
    /\ \E expectType \in MsgTypes :
          /\ args' = [args EXCEPT !.expect = expectType]
          /\ perr' = IF nlMsghdrAt(buf, 0).Type # expectType THEN "WrongType" ELSE "nil"
    /\ pos' = 0 + NLMSG_HDRLEN
    /\ bpc' = "header"
    /\ UNCHANGED <<buf, stack, log, retSeq, attrs, got, nextSeqNo>>

\* Lines 222-230: Advance(n).
Advance ==
    /\ bpc = "butcher"
    /\ \E n \in 0..MaxRaw :
          IF pos + n > Len(buf)
          THEN perr' = "TruncatedPayload" /\ pos' = pos
          ELSE perr' = "nil" /\ pos' = pos + n
    /\ UNCHANGED <<buf, stack, bpc, args, log, retSeq, attrs, got, nextSeqNo>>

\* Lines 275-300.
TakeAttrs ==
    /\ bpc \in {"header", "butcher"}
    /\ perr = "nil"
    /\ LET r == TakeAttrsFrom(buf, pos, NoAttrs) IN
          /\ attrs' = r.attrs
          /\ perr' = r.err
          /\ pos' = r.pos
    /\ bpc' = "parsed"
    /\ UNCHANGED <<buf, stack, args, log, retSeq, got, nextSeqNo>>

\* Bytes of raw buffers given to NewNlMsgButcher.
RawBytes == {0, 2, 4, 5, 8}

\* Attribute types asked of a map parsed from raw bytes; no two raw bytes
\* make the type 7.
GetTypes == {2, 4, 7}

\* Lines 254-265.
GetUint16 ==
    /\ bpc = "parsed"
    /\ perr = "nil"
    /\ \E typ \in GetTypes :
          LET g == AttrsGetUint16(attrs, typ) IN
          got' = [val |-> g.val, err |-> g.err, typ |-> typ]
    /\ UNCHANGED <<buf, stack, bpc, args, log, retSeq, pos, attrs, perr, nextSeqNo>>

NoArgs == [flags |-> 0, typ |-> 0, expect |-> 0]

InitChain ==
    /\ buf = <<>>
    /\ stack = <<>>
    /\ bpc = "new"
    /\ args = NoArgs
    /\ log = <<>>
    /\ retSeq = U32(0, 0)
    /\ pos = 0
    /\ attrs = NoAttrs
    /\ perr = "nil"
    /\ got = NoGot


RawBuffers == UNION {[1..n -> RawBytes] : n \in 0..MaxRaw}

\* Lines 214-216: NewNlMsgButcher(data) over any received bytes.
InitButcher ==
    /\ buf \in RawBuffers
    /\ stack = <<>>
    /\ bpc = "butcher"
    /\ args = NoArgs
    /\ log = <<>>
    /\ retSeq = U32(0, 0)
    /\ pos = 0
    /\ attrs = NoAttrs
    /\ perr = "nil"
    /\ got = NoGot

-----------------------------------------------------------------------------
(* The specifications.                                                     *)

\* checkResponse on received datagrams.
InitC == InitCheck /\ InitThreads /\ InitChain /\ nextSeqNo = U32(0, 0)

NextC ==
    \/ Recv /\ UNCHANGED <<nextSeqNo, finishVars, buildVars>>
    \/ CheckResponse /\ UNCHANGED <<nextSeqNo, finishVars, buildVars>>

SpecCheck == InitC /\ [][NextC]_vars

\* Goroutines calling Finish on builders of their own.
InitF == InitCheck /\ InitThreads /\ InitChain /\ nextSeqNo \in StartSeqNos

NextF ==
    \E t \in Threads :
        \/ FinishBegin(t) /\ UNCHANGED <<checkVars, buildVars>>
        \/ FinishAdd(t) /\ UNCHANGED <<checkVars, buildVars>>
        \/ FinishReturn(t) /\ UNCHANGED <<checkVars, buildVars>>

SpecFinish == InitF /\ [][NextF]_vars

\* One builder, finished and parsed back.
InitB == InitCheck /\ InitThreads /\ InitChain /\ nextSeqNo = U32(0, 0)

NextB ==
    \/ NewBuilder /\ UNCHANGED <<checkVars, finishVars>>
    \/ PutRtAttrCall /\ UNCHANGED <<checkVars, finishVars>>
    \/ AddStringZ /\ UNCHANGED <<checkVars, finishVars>>
    \/ PutRtAttrReturn /\ UNCHANGED <<checkVars, finishVars>>
    \/ Finish /\ UNCHANGED <<checkVars, finishVars>>
    \/ TakeNlMsghdr /\ UNCHANGED <<checkVars, finishVars>>
    \/ TakeAttrs /\ UNCHANGED <<checkVars, finishVars>>

SpecBuild == InitB /\ [][NextB]_vars

\* A butcher over arbitrary bytes.
InitA == InitCheck /\ InitThreads /\ InitButcher /\ nextSeqNo = U32(0, 0)

NextA ==
    \/ Advance /\ UNCHANGED <<checkVars, finishVars>>
    \/ TakeAttrs /\ UNCHANGED <<checkVars, finishVars>>
    \/ GetUint16 /\ UNCHANGED <<checkVars, finishVars>>

SpecAttrs == InitA /\ [][NextA]_vars

-----------------------------------------------------------------------------
(* Properties of checkResponse (SpecCheck).                                *)

HeaderErrors == {"TruncatedHeader", "TruncatedMessage", "PeerMismatch", "SequenceMismatch"}

\* The header of the received buffer, when the buffer holds one.
RecvHdr == nlMsghdrAt(data, 0)

\* The received buffer passes the header, length, port id and sequence checks.
PassesChecks ==
    /\ Len(data) >= NLMSG_HDRLEN
    /\ ~IntLtU32(Len(data), RecvHdr.Len)
    /\ RecvHdr.Pid = sockPid
    /\ RecvHdr.Seq = expectedSeq

\* C1: the checks are applied in the order header size, declared length,
\* port id, sequence number; the first one violated decides the error, an
\* error of these four kinds is returned only for a violated check, and the
\* payload has not been touched when one of them is returned.
C1_FirstViolatedCheckDecides ==
    cpc = "done" =>
      /\ Len(data) < NLMSG_HDRLEN => result.kind = "TruncatedHeader"
      /\ (Len(data) >= NLMSG_HDRLEN /\ IntLtU32(Len(data), RecvHdr.Len))
            => result.kind = "TruncatedMessage"
      /\ (/\ Len(data) >= NLMSG_HDRLEN
          /\ ~IntLtU32(Len(data), RecvHdr.Len)
          /\ RecvHdr.Pid # sockPid)
            => result.kind = "PeerMismatch"
      /\ (/\ Len(data) >= NLMSG_HDRLEN
          /\ ~IntLtU32(Len(data), RecvHdr.Len)
          /\ RecvHdr.Pid = sockPid
          /\ RecvHdr.Seq # expectedSeq)
            => result.kind = "SequenceMismatch"
      /\ result.kind \in HeaderErrors => ~result.decoded /\ ~PassesChecks
      /\ PassesChecks => result.kind \notin HeaderErrors

\* A well-formed reply with both a wrong port id and a wrong sequence number
\* was rejected as a peer mismatch.
C1_Witness ==
    /\ cpc = "done"
    /\ Len(data) >= NLMSG_HDRLEN
    /\ ~IntLtU32(Len(data), RecvHdr.Len)
    /\ RecvHdr.Pid # sockPid
    /\ RecvHdr.Seq # expectedSeq
    /\ result.kind = "PeerMismatch"

\* C2: a payload message that passed the four checks and whose declared
\* length, rounded up to the message alignment, is less than the buffer
\* length is rejected as Multiple Messages, and success is returned only
\* when nothing follows the first message.  (Stated for the calls that
\* return, so that a violation is this claim's own.)
C2_MultipleMessagesDetected ==
    (/\ cpc = "done"
     /\ PassesChecks
     /\ RecvHdr.Type # NLMSG_ERROR
     /\ result.kind # "panic")
      => /\ align(DeclaredLen(data), NLMSG_ALIGNTO) < Len(data)
              => result.kind = "MultipleMessages"
         /\ result.kind = "nil"
              => align(DeclaredLen(data), NLMSG_ALIGNTO) >= Len(data)

\* C3: an error-type response that passed the four checks ends in success or
\* in a NetlinkError; success exactly when the embedded code is 0, otherwise
\* the NetlinkError carries the negated code; never Multiple Messages.
C3_ErrorResponseDecoded ==
    (cpc = "done" /\ PassesChecks /\ RecvHdr.Type = NLMSG_ERROR)
      => /\ result.kind \in {"nil", "NetlinkError"}
         /\ Len(data) >= NLMSG_HDRLEN + SizeofNlMsgerrCode
              => LET code == GetInt32(data, NLMSG_HDRLEN) IN
                 /\ result.kind = "nil" <=> code = 0
                 /\ result.kind = "NetlinkError" => result.errno = NegInt32(code)

\* The part of C3 the code does satisfy: when the declared length covers the
\* 4-byte code, the response is decoded as C3 says.
C3_DecodedWhenCodePresent ==
    (/\ cpc = "done"
     /\ PassesChecks
     /\ RecvHdr.Type = NLMSG_ERROR
     /\ DeclaredLen(data) >= NLMSG_HDRLEN + SizeofNlMsgerrCode)
      => LET code == GetInt32(data, NLMSG_HDRLEN) IN
         /\ result.kind \in {"nil", "NetlinkError"}
         /\ result.kind = "nil" <=> code = 0
         /\ result.kind = "NetlinkError" => result.errno = NegInt32(code)

\* C4: for every buffer and expected sequence number checkResponse returns
\* success or an error value; it never ends in a run-time fault.
C4_NeverFaults == cpc = "done" => result.kind # "panic"

-----------------------------------------------------------------------------
(* Properties of Finish (SpecFinish).                                      *)

\* C5: the sequence numbers returned by the Finish calls are pairwise
\* distinct, each equals the one stamped into the caller's own header, and a
\* call that began after another returned got a greater number.
C5_SequenceNumbersDistinct ==
    \A r \in returned :
      /\ r.seq = r.hdrSeq
      /\ \A q \in returned :
            (q.thread # r.thread \/ q.call # r.call) => q.seq # r.seq
      /\ \A s \in r.before : U32Lt(s, r.seq)

\* Two calls of different goroutines overlapped and both returned, and a
\* third call began after one of them had returned.
C5_Witness ==
    /\ \E r, q \in returned :
          /\ r.thread # q.thread
          /\ r.seq \notin q.before
          /\ q.seq \notin r.before
    /\ \E r \in returned : r.before # {}

-----------------------------------------------------------------------------
(* Properties of the builder and the parser (SpecBuild).                   *)

TopLevel == {i \in 1..Len(log) : log[i].parent = -1}

Nested == {i \in 1..Len(log) : log[i].parent # -1}

\* The value bytes the builder wrote for the i-th logged attribute.
Written(i) == Slice(buf, log[i].pos + SizeofRtAttr, log[i].end)

\* The message is exactly NewNlMsgBuilder, one PutStringRtAttr, Finish.
OneStringAttr ==
    /\ bpc \in {"finished", "header", "parsed"}
    /\ Len(log) = 1
    /\ log[1].kind = "str"

\* C6: a message built from flags F, type T and one string attribute (A, s)
\* has its header length equal to its byte length, type T and flags F;
\* TakeNlMsghdr(T) and TakeAttrs succeed on it and yield the map with the
\* one key A, whose value is the bytes of s and one NUL, without padding.
C6_StringAttrRoundTrip ==
    OneStringAttr =>
      /\ nlMsghdrAt(buf, 0).Len = U32OfInt(Len(buf))
      /\ nlMsghdrAt(buf, 0).Type = args.typ
      /\ nlMsghdrAt(buf, 0).Flags = args.flags
      /\ nlMsghdrAt(buf, 0).Seq = retSeq
      /\ (bpc = "header" /\ args.expect = args.typ) => perr = "nil"
      /\ bpc = "parsed"
            => /\ perr = "nil"
               /\ DOMAIN attrs = {log[1].typ}
               /\ attrs[log[1].typ] = log[1].str \o <<0>>

\* "et" was written under a two-byte type and read back as "et\0".
C6_Witness ==
    /\ OneStringAttr
    /\ bpc = "parsed"
    /\ log[1].typ = 258
    /\ log[1].str = <<101, 116>>
    /\ attrs[258] = <<101, 116, 0>>
    /\ Len(buf) = 23

\* C9: once the outermost PutRtAttr has returned, every attribute written
\* inside a callback lies between its enclosing attribute's prefix and that
\* prefix start plus the declared length; TakeAttrs over the finished
\* message succeeds, its keys are types of top-level attributes only, and a
\* container's value is all the bytes its callback wrote.
C9_NestedAttrsContained ==
    /\ stack = <<>> =>
         \A i \in Nested :
            LET outerLen == GetLe16(buf, log[i].parent) IN
            /\ log[i].parent + SizeofRtAttr <= log[i].pos
            /\ log[i].end <= log[i].parent + outerLen
            /\ log[i].pos + GetLe16(buf, log[i].pos) <= log[i].parent + outerLen
    /\ bpc = "parsed" =>
         /\ perr = "nil"
         /\ DOMAIN attrs = {log[i].typ : i \in TopLevel}
         /\ \A i \in TopLevel :
               (\A j \in TopLevel : j > i => log[j].typ # log[i].typ)
                  => attrs[log[i].typ] = Written(i)

\* A container of type 1 holding an attribute of type 258 was parsed; 258 is
\* no key of the map, and the container's value holds the inner TLV.
C9_Witness ==
    /\ bpc = "parsed"
    /\ perr = "nil"
    /\ \E i \in Nested :
          /\ log[i].typ = 258
          /\ 258 \notin DOMAIN attrs
          /\ \E j \in TopLevel :
                /\ log[j].pos = log[i].parent
                /\ log[j].typ = 1
                /\ Len(attrs[1]) >= log[i].end - log[i].pos

\* C10: TakeAttrs over the built stream reports no error; the map's keys
\* are the distinct top-level types, and each key holds the value of the
\* last top-level record of its type.
C10_LastWriteWins ==
    bpc = "parsed" =>
      /\ perr = "nil"
      /\ DOMAIN attrs = {log[i].typ : i \in TopLevel}
      /\ Cardinality(DOMAIN attrs) = Cardinality({log[i].typ : i \in TopLevel})
      /\ \A i \in TopLevel :
            (\A j \in TopLevel : j > i => log[j].typ # log[i].typ)
               => attrs[log[i].typ] = Written(i)

\* Two top-level records of one type with different values were parsed, and
\* the map holds the later one.
C10_Witness ==
    /\ bpc = "parsed"
    /\ \E i, j \in TopLevel :
          /\ i < j
          /\ log[i].typ = log[j].typ
          /\ Written(i) # Written(j)
          /\ \A k \in TopLevel : k > j => log[k].typ # log[j].typ
          /\ attrs[log[j].typ] = Written(j)

-----------------------------------------------------------------------------
(* Properties of the parser on arbitrary bytes (SpecAttrs).                *)

\* C7: TakeAttrs ends with a map or with a Truncated Attribute error and
\* never faults, for every buffer and cursor, whatever length a prefix
\* declares.
C7_TakeAttrsNeverFaults ==
    bpc = "parsed" => perr \in {"nil", "TruncatedAttribute"}

\* C8: GetUint16 returns an error when the attribute is absent and when its
\* value is not exactly 2 bytes long; it succeeds only on a 2-byte value,
\* with those bytes in native order.
C8_GetUint16FailClosed ==
    got.err # "none" =>
      /\ got.typ \notin DOMAIN attrs => got.err # "nil"
      /\ (got.typ \in DOMAIN attrs /\ Len(attrs[got.typ]) # 2) => got.err # "nil"
      /\ got.err = "nil" =>
            /\ got.typ \in DOMAIN attrs
            /\ Len(attrs[got.typ]) = 2
            /\ got.val = attrs[got.typ][1] + 256 * attrs[got.typ][2]

====
